---- MODULE Spec2Model ----
(***************************************************************************)
(* A model of resultsdbupdater/utils.py: the three message handlers        *)
(* (handle_ci_metrics, handle_ci_umb, handle_resultsdb_format), the pure   *)
(* helpers they use, and the two calls they make to the ResultsDB API      *)
(* (create_result, get_first_group).                                       *)
(*                                                                         *)
(* Representation.  A Python dict is a function whose DOMAIN is the set of *)
(* keys that are present.  A Python str is the sequence of its tokens: a   *)
(* token is a substring the code never looks inside, and every character   *)
(* the code looks for (the '.' of a topic, the ',' of the recipients, the  *)
(* '/' and the digits of a URL, the letters of a status) is a token of its *)
(* own.  So '{0}.{1}'.format(a, b) is a \o <<".">> \o b, and startswith,  *)
(* endswith, split, lower, rstrip, int and the regular expressions work on *)
(* the tokens as the code works on the characters.  None, True and False   *)
(* are values of their own, written as one token no str contains.  A list  *)
(* of str is the token sequence "[", item, ",", item, "]".  uuid.uuid4()   *)
(* is the next value of a counter.                                         *)
(***************************************************************************)
EXTENDS Integers, Sequences, FiniteSets, TLC

VARIABLES
    handler,    \* the handler that consumed the current message
    msg,        \* the current message
    failAt,     \* which create_result call of this message gets a non-2xx (0: none)
    posted,     \* the requests of this message the API accepted, in order
    attempts,   \* create_result calls made for this message
    lookups,    \* get_first_group calls made for this message
    result,     \* how the handler ended: a return value or the exception raised
    log,        \* levels of the records logged for this message
    apiGroups,  \* groups stored by the ResultsDB API, in creation order
    nextUuid    \* the next value uuid.uuid4() gives

vars == <<handler, msg, failAt, posted, attempts, lookups, result, log,
          apiGroups, nextUuid>>

\* ------------------------------------------------------------------ bounds

MaxUuid == 2
MaxTests == 2
MaxResults == 2

\* ------------------------------------------------------------ Python values

None == <<"<None>">>
True == <<"<True>">>
False == <<"<False>">>

PASSED == <<"P", "A", "S", "S", "E", "D">>
FAILED == <<"F", "A", "I", "L", "E", "D">>
QUEUED == <<"Q", "U", "E", "U", "E", "D">>
RUNNING == <<"R", "U", "N", "N", "I", "N", "G">>

\* d.get(k), d.get(k, default)
Get(d, k, default) == IF k \in DOMAIN d THEN d[k] ELSE default

\* d[k] = v
Put(d, k, v) == [x \in DOMAIN d \cup {k} |-> IF x = k THEN v ELSE d[x]]

\* {k1: v1, ...}: the pairs are <<key, value>>
RECURSIVE Dict(_)
Dict(pairs) ==
    IF pairs = <<>> THEN <<>>
    ELSE Put(Dict(SubSeq(pairs, 1, Len(pairs) - 1)),
             pairs[Len(pairs)][1], pairs[Len(pairs)][2])

\* {key: value for key, value in pairs if value is not None}
DictNotNone(pairs) == Dict(SelectSeq(pairs, LAMBDA p : p[2] # None))

\* s.startswith(prefix), s.endswith(suffix)
StartsWith(s, prefix) ==
    Len(s) >= Len(prefix) /\ SubSeq(s, 1, Len(prefix)) = prefix

EndsWith(s, suffix) ==
    Len(s) >= Len(suffix)
    /\ SubSeq(s, Len(s) - Len(suffix) + 1, Len(s)) = suffix

\* s.split(sep): the list of the parts of s between the separators
RECURSIVE Split(_, _)
Split(s, sep) ==
    IF \A i \in 1..Len(s) : s[i] # sep THEN <<s>>
    ELSE LET i == CHOOSE i \in 1..Len(s) :
                      s[i] = sep /\ \A j \in 1..(i - 1) : s[j] # sep
         IN <<SubSeq(s, 1, i - 1)>> \o Split(SubSeq(s, i + 1, Len(s)), sep)

\* a list of str as the tokens of its rendering
RECURSIVE ListItems(_)
ListItems(items) ==
    IF items = <<>> THEN <<>>
    ELSE IF Len(items) = 1 THEN items[1]
    ELSE items[1] \o <<",">> \o ListItems(Tail(items))

List(items) == <<"[">> \o ListItems(items) \o <<"]">>

LowerChar(c) ==
    CASE c = "A" -> "a" [] c = "B" -> "b" [] c = "C" -> "c" [] c = "D" -> "d"
      [] c = "E" -> "e" [] c = "F" -> "f" [] c = "G" -> "g" [] c = "H" -> "h"
      [] c = "I" -> "i" [] c = "J" -> "j" [] c = "K" -> "k" [] c = "L" -> "l"
      [] c = "M" -> "m" [] c = "N" -> "n" [] c = "O" -> "o" [] c = "P" -> "p"
      [] c = "Q" -> "q" [] c = "R" -> "r" [] c = "S" -> "s" [] c = "T" -> "t"
      [] c = "U" -> "u" [] c = "V" -> "v" [] c = "W" -> "w" [] c = "X" -> "x"
      [] c = "Y" -> "y" [] c = "Z" -> "z" [] OTHER -> c

\* s.lower()
lower(s) == [i \in 1..Len(s) |-> LowerChar(s[i])]

\* s.replace(old, new) for one-character old and new
replace(s, old, new) == [i \in 1..Len(s) |-> IF s[i] = old THEN new ELSE s[i]]

\* what a handler run leaves behind
Outcome(res, reqs, calls, gets, logs, uuids) ==
    [result |-> res, posted |-> reqs, attempts |-> calls, lookups |-> gets,
     log |-> logs, uuids |-> uuids]

\* --------------------------------------------------------------- API calls

\* update_publisher_id with the data replaced instead of updated
update_publisher_id_Replaces(data, m) ==
    LET msg_publisher_id == Get(m.headers, "JMSXUserID", None) IN
    IF msg_publisher_id # None /\ msg_publisher_id # <<>>
    THEN [publisher_id |-> msg_publisher_id]
    ELSE data

update_publisher_id(data, m) ==
    LET msg_publisher_id == Get(m.headers, "JMSXUserID", None) IN
    IF msg_publisher_id # None /\ msg_publisher_id # <<>>
    THEN Put(data, "publisher_id", msg_publisher_id)
    ELSE data

\* create_result without the call of raise_for_status
raise_for_status_Ignored(fail, call) == FALSE

\* post_req.raise_for_status(): create_result raises when the API answers the
\* call with a non-2xx status, which it does to call number `fail`.
raise_for_status(fail, call) == fail = call

\* create_result with the groups left out of the body
create_result_NoGroups(testcase, outcome, ref_url, data, groups, note) ==
    [testcase |-> testcase, groups |-> <<>>, outcome |-> outcome,
     ref_url |-> ref_url, note |-> note, data |-> data]

\* The JSON body of the POST.
create_result(testcase, outcome, ref_url, data, groups, note) ==
    [testcase |-> testcase, groups |-> groups, outcome |-> outcome,
     ref_url |-> ref_url, note |-> note, data |-> data]

\* GET groups?description=...: the first stored group with that description,
\* or the empty dict.
get_first_group(store, description) ==
    LET found == SelectSeq(store,
                     LAMBDA g : "description" \in DOMAIN g
                                /\ g.description = description) IN
    IF Len(found) > 0 THEN found[1] ELSE <<>>

\* The API stores the groups of an accepted result that it does not know yet.
RECURSIVE StoreGroups(_, _)
StoreGroups(store, groups) ==
    IF groups = <<>> THEN store
    ELSE LET g == Head(groups)
             known == \E i \in 1..Len(store) : store[i].uuid = g.uuid
             kept == [k \in DOMAIN g \cap {"uuid", "description"} |-> g[k]]
         IN StoreGroups(IF known THEN store ELSE Append(store, kept),
                        Tail(groups))

RECURSIVE StoreResults(_, _)
StoreResults(store, reqs) ==
    IF reqs = <<>> THEN store
    ELSE StoreResults(StoreGroups(store, Head(reqs).groups), Tail(reqs))

\* ------------------------------------------------------- handle_ci_metrics

Digits == {"0", "1", "2", "3", "4", "5", "6", "7", "8", "9"}

DigitValue(c) ==
    CASE c = "0" -> 0 [] c = "1" -> 1 [] c = "2" -> 2 [] c = "3" -> 3
      [] c = "4" -> 4 [] c = "5" -> 5 [] c = "6" -> 6 [] c = "7" -> 7
      [] c = "8" -> 8 [] c = "9" -> 9

\* int(s) raises ValueError unless s is a decimal number
IsInt(s) == Len(s) > 0 /\ \A i \in 1..Len(s) : s[i] \in Digits

RECURSIVE int(_)
int(s) ==
    IF s = <<>> THEN 0
    ELSE 10 * int(SubSeq(s, 1, Len(s) - 1)) + DigitValue(s[Len(s)])

\* s.rstrip('/')
RECURSIVE RStripSlash(_)
RStripSlash(url) ==
    IF url # <<>> /\ url[Len(url)] = "/"
    THEN RStripSlash(SubSeq(url, 1, Len(url) - 1))
    ELSE url

CiMetricsRequired == {"jenkins_job_url", "jenkins_build_url", "tests"}

\* the sub-test outcome with a missing `failed` taken for no failure
SubTestPassed_MissingPasses(test) ==
    "failed" \notin DOMAIN test \/ int(test.failed) = 0

\* outcome of one sub-test
SubTestPassed(test) == "failed" \in DOMAIN test /\ int(test.failed) = 0

\* The loop over tests from index i on, then the overall result.  `reqs` are
\* the requests accepted so far; every create_result is the next attempt and
\* raises when the API answers it with a non-2xx status.
RECURSIVE CiMetricsLoop(_, _, _, _, _, _, _)
CiMetricsLoop(m, common, i, overall_outcome, reqs, fail, logs) ==
    LET tests == m.body.msg.tests
        calls == Len(reqs) + 1
    IN
    IF i <= Len(tests) THEN
        LET test == tests[i] IN
        IF "failed" \in DOMAIN test /\ ~IsInt(test.failed)
        THEN Outcome("ValueError", reqs, Len(reqs), 0, logs, 1)
        ELSE
        LET passed == SubTestPassed(test)
            outcome == IF passed THEN PASSED ELSE FAILED
            testcase == [name |-> common.team \o <<".">> \o common.test_name
                                  \o <<".">>
                                  \o Get(test, "executor", <<"unknown">>),
                         ref_url |-> common.testcase_url]
            data == update_publisher_id(
                        Put(Put(Put(Put(Put(Put(Put(test,
                            "item", common.component),
                            "type", common.test_type),
                            "recipients", common.recipients),
                            "CI_tier", common.ci_tier),
                            "job_name", common.test_name),
                            "artifact", common.artifact),
                            "brew_task_id", common.brew_task_id), m)
            req == create_result(testcase, outcome, common.group_tests_ref_url,
                                 data, common.groups, <<>>)
        IN
        IF raise_for_status(fail, calls)
        THEN Outcome("HTTPError", reqs, calls, 0, logs, 1)
        ELSE CiMetricsLoop(m, common, i + 1,
                           IF passed THEN overall_outcome ELSE FAILED,
                           Append(reqs, req), fail, logs)
    ELSE
        LET testcase == [name |-> common.team \o <<".">> \o common.test_name,
                         ref_url |-> common.testcase_url]
            result_data == update_publisher_id(
                [item |-> common.component,
                 type |-> common.test_type,
                 recipients |-> common.recipients,
                 CI_tier |-> common.ci_tier,
                 job_name |-> common.test_name,
                 artifact |-> common.artifact,
                 brew_task_id |-> common.brew_task_id], m)
            req == create_result(testcase, overall_outcome,
                                 common.group_tests_ref_url, result_data,
                                 common.groups, <<>>)
        IN
        IF raise_for_status(fail, calls)
        THEN Outcome("HTTPError", reqs, calls, 0, logs, 1)
        ELSE Outcome("returned", Append(reqs, req), calls, 0, logs, 1)

handle_ci_metrics(m, uuid, fail) ==
    LET body == m.body.msg IN
    IF "message-id" \notin DOMAIN m.headers
    THEN Outcome("KeyError", <<>>, 0, 0, <<>>, 0)
    ELSE
    LET team == Get(body, "team", <<"unassigned">>)
        log1 == IF team = <<"unassigned">> THEN <<"warning">> ELSE <<>>
    IN
    IF "job_name" \notin DOMAIN body /\ "job_names" \notin DOMAIN body
    THEN Outcome("KeyError", <<>>, 0, 0, log1, 0)
    ELSE
    LET log2 == IF "job_name" \in DOMAIN body THEN log1
                ELSE Append(log1, "warning")
    IN
    IF ~(CiMetricsRequired \subseteq DOMAIN body)
    THEN Outcome("KeyError", <<>>, 0, 0, log2, 0)
    ELSE
    LET build_type == Get(body, "build_type", <<"unknown">>)
        brew_task_id == Get(body, "brew_task_id", <<"unknown">>)
        type1 == IF brew_task_id # <<"unknown">> THEN <<"koji_build">>
                 ELSE <<"unknown">>
        common ==
            [team |-> team,
             test_name |-> IF "job_name" \in DOMAIN body THEN body.job_name
                           ELSE body.job_names,
             testcase_url |-> body.jenkins_job_url,
             artifact |-> Get(body, "artifact", <<"unknown">>),
             brew_task_id |-> brew_task_id,
             group_tests_ref_url |->
                 RStripSlash(body.jenkins_build_url) \o <<"/", "console">>,
             component |-> Get(body, "component", <<"unknown">>),
             recipients |->
                 List(Split(Get(body, "recipients", <<"unknown">>), ",")),
             ci_tier |-> Get(body, "CI_tier", List(<<<<"unknown">>>>)),
             test_type |-> IF build_type = <<"scratch">>
                           THEN type1 \o <<"_scratch">> ELSE type1,
             groups |-> <<[uuid |-> uuid, ref_url |-> body.jenkins_build_url]>>]
    IN CiMetricsLoop(m, common, 1, PASSED, <<>>, fail, log2)

\* ----------------------------------------------------------- handle_ci_umb

_construct_testcase_dict(body) ==
    LET namespace == Get(body, "namespace", <<"unknown">>)
        test_type == Get(body, "type", <<"unknown">>)
        category == Get(body, "category", <<"unknown">>)
    IN [name |-> namespace \o <<".">> \o test_type \o <<".">> \o category,
        ref_url |-> body.ci.url]

\* _test_result_outcome raises KeyError when it has to read a status the body
\* does not have.
TopicDecidesOutcome(topic) ==
    \/ EndsWith(topic, <<".", "error">>)
    \/ EndsWith(topic, <<".", "queued">>)
    \/ EndsWith(topic, <<".", "running">>)

\* broken_mapping without its 'failure' entry
broken_mapping_NoFailure(status) ==
    CASE status = <<"p", "a", "s", "s">> -> PASSED
      [] status = <<"f", "a", "i", "l">> -> FAILED
      [] OTHER -> None

broken_mapping(status) ==
    CASE status = <<"p", "a", "s", "s">> -> PASSED
      [] status = <<"f", "a", "i", "l">> -> FAILED
      [] status = <<"f", "a", "i", "l", "u", "r", "e">> -> FAILED
      [] OTHER -> None

_test_result_outcome(message) ==
    IF EndsWith(message.topic, <<".", "error">>) THEN FAILED
    ELSE IF EndsWith(message.topic, <<".", "queued">>) THEN QUEUED
    ELSE IF EndsWith(message.topic, <<".", "running">>) THEN RUNNING
    ELSE LET outcome == message.body.msg.status IN
         IF broken_mapping(lower(outcome)) # None
         THEN broken_mapping(lower(outcome))
         ELSE outcome

TopicPrefix == <<"/topic/VirtualTopic", ".", "eng", ".", "ci", ".">>

namespace_from_topic(topic) ==
    IF ~StartsWith(topic, TopicPrefix) THEN None
    ELSE LET topic_components == Split(topic, ".") IN
         IF Len(topic_components) # 7 THEN None
         ELSE topic_components[4]

namespace_from_testcase_name(testcase_name) == Split(testcase_name, ".")[1]

\* the return value, and the level of the record it logs (if any)
verify_topic_and_testcase_name(topic, testcase_name) ==
    LET topic_namespace == namespace_from_topic(topic) IN
    IF topic_namespace = None \/ topic_namespace = <<>>
    THEN [ok |-> TRUE, log |-> <<"warning">>]
    ELSE IF namespace_from_testcase_name(testcase_name) # topic_namespace
    THEN [ok |-> FALSE, log |-> <<"warning">>]
    ELSE [ok |-> TRUE, log |-> <<>>]

\* `system` comes as a dict or as a list of one dict; a list is written here
\* as the dict {"<list>": its items}.
ListOfDicts(items) == "<list>" :> items

NormalSystem(body) ==
    LET system == Get(body, "system", <<>>) IN
    IF DOMAIN system = {"<list>"}
    THEN IF system["<list>"] # <<>> THEN system["<list>"][1] ELSE <<>>
    ELSE system

\* re.match('^(.*):(.*):(.*):(.*)', nsvc): with greedy groups the last three
\* colons are the delimiters.
Colons(s) == {i \in 1..Len(s) : s[i] = ":"}

NsvcMatches(s) == Cardinality(Colons(s)) >= 3

RECURSIVE Max(_)
Max(S) == LET x == CHOOSE x \in S : TRUE IN
          IF S = {x} THEN x
          ELSE LET y == Max(S \ {x}) IN IF x > y THEN x ELSE y

NsvcGroups(s) ==
    LET c3 == Max(Colons(s))
        c2 == Max(Colons(s) \ {c3})
        c1 == Max(Colons(s) \ {c3, c2})
    IN [name |-> SubSeq(s, 1, c1 - 1),
        stream |-> SubSeq(s, c1 + 1, c2 - 1),
        version |-> SubSeq(s, c2 + 1, c3 - 1),
        context |-> SubSeq(s, c3 + 1, Len(s))]

CiRequired == {"name", "team", "url", "email"}

\* The branch of handle_ci_umb for each artifact type: the exception it
\* raises, or "False" for the early return, or the result_data it builds.
Extracted(data) == [raised |-> "", result_data |-> data]
Raised(e) == [raised |-> e, result_data |-> <<>>]

ProductmdCompose(body, system, item_type) ==
    LET artifact == body.artifact
        id == Get(artifact, "id", None)
    IN
    IF \/ "architecture" \notin DOMAIN system
       \/ (id = None \/ id = <<>>) /\ "compose_id" \notin DOMAIN artifact
       \/ "ci" \notin DOMAIN body
    THEN Raised("KeyError")
    ELSE IF \/ ~(CiRequired \subseteq DOMAIN body.ci)
            \/ "log" \notin DOMAIN body.run
            \/ "provider" \notin DOMAIN system
    THEN Raised("KeyError")
    ELSE
    LET architecture == system.architecture
        variant == Get(system, "variant", None)
        compose_id == IF id = None \/ id = <<>> THEN artifact.compose_id ELSE id
        item == compose_id \o <<"/">>
                \o (IF variant = None \/ variant = <<>> THEN <<"unknown">>
                    ELSE variant)
                \o <<"/">> \o architecture
    IN Extracted(DictNotNone(<<
        <<"item", item>>,
        <<"ci_name", body.ci.name>>,
        <<"ci_team", body.ci.team>>,
        <<"ci_url", body.ci.url>>,
        <<"ci_irc", Get(body.ci, "irc", None)>>,
        <<"ci_email", body.ci.email>>,
        <<"log", body.run.log>>,
        <<"type", item_type>>,
        <<"productmd.compose.id", compose_id>>,
        <<"system_provider", system.provider>>,
        <<"system_architecture", architecture>>,
        <<"system_variant", variant>>,
        <<"category", Get(body, "category", None)>> >>))

ComponentVersion(body, system, item_type) ==
    LET artifact == body.artifact IN
    IF \/ ~({"component", "version"} \subseteq DOMAIN artifact)
       \/ "ci" \notin DOMAIN body
    THEN Raised("KeyError")
    ELSE IF \/ ~(CiRequired \subseteq DOMAIN body.ci)
            \/ "log" \notin DOMAIN body.run
    THEN Raised("KeyError")
    ELSE
    LET component == artifact.component
        version == artifact.version
        item == component \o <<"-">> \o version
    IN Extracted(DictNotNone(<<
        <<"item", item>>,
        <<"ci_name", body.ci.name>>,
        <<"ci_team", body.ci.team>>,
        <<"ci_url", body.ci.url>>,
        <<"ci_irc", Get(body.ci, "irc", None)>>,
        <<"ci_email", body.ci.email>>,
        <<"log", body.run.log>>,
        <<"type", item_type>>,
        <<"component", component>>,
        <<"version", version>>,
        <<"category", Get(body, "category", None)>> >>))

ContainerImage(body, system, item_type) ==
    LET artifact == body.artifact IN
    IF \/ ~({"repository", "digest"} \subseteq DOMAIN artifact)
       \/ "ci" \notin DOMAIN body
    THEN Raised("KeyError")
    ELSE IF \/ ~(CiRequired \subseteq DOMAIN body.ci)
            \/ "log" \notin DOMAIN body.run
    THEN Raised("KeyError")
    ELSE
    LET repo == artifact.repository
        digest == artifact.digest
        item == repo \o <<"@">> \o digest
    IN Extracted(DictNotNone(<<
        <<"item", item>>,
        <<"ci_name", body.ci.name>>,
        <<"ci_team", body.ci.team>>,
        <<"ci_url", body.ci.url>>,
        <<"ci_irc", Get(body.ci, "irc", None)>>,
        <<"ci_environment", Get(body.ci, "environment", None)>>,
        <<"ci_email", body.ci.email>>,
        <<"log", body.run.log>>,
        <<"rebuild", Get(body.run, "rebuild", None)>>,
        <<"xunit", Get(body, "xunit", None)>>,
        <<"type", item_type>>,
        <<"repository", Get(artifact, "repository", None)>>,
        <<"digest", Get(artifact, "digest", None)>>,
        <<"format", Get(artifact, "format", None)>>,
        <<"pull_ref", Get(artifact, "pull_ref", None)>>,
        <<"scratch", Get(artifact, "scratch", None)>>,
        <<"nvr", Get(artifact, "nvr", None)>>,
        <<"issuer", Get(artifact, "issuer", None)>>,
        <<"system_os", Get(system, "os", None)>>,
        <<"system_provider", Get(system, "provider", None)>>,
        <<"system_architecture", Get(system, "architecture", None)>>,
        <<"category", Get(body, "category", None)>> >>))

\* the AttributeError of a failed match left uncaught
InvalidNsvc_Uncaught == Raised("AttributeError")

\* except AttributeError: log the error and return False
InvalidNsvc == Raised("False")

RedhatModule(body, system, item_type) ==
    LET artifact == body.artifact IN
    IF "ci" \notin DOMAIN body \/ "nsvc" \notin DOMAIN artifact
    THEN Raised("KeyError")
    ELSE IF ~NsvcMatches(artifact.nsvc) THEN InvalidNsvc
    ELSE IF \/ "category" \notin DOMAIN body
            \/ ~({"context", "name", "stream", "version"}
                     \subseteq DOMAIN artifact)
            \/ "log" \notin DOMAIN body.run
    THEN Raised("KeyError")
    ELSE
    LET g == NsvcGroups(artifact.nsvc)
        stream == replace(g.stream, "-", "_")
        nsvc == g.name \o <<"-">> \o stream \o <<"-">> \o g.version
                \o <<".">> \o g.context
        msg_body_ci == body.ci
    IN Extracted(Dict(<<
        <<"item", nsvc>>,
        <<"type", item_type>>,
        <<"mbs_id", Get(artifact, "id", None)>>,
        <<"category", body.category>>,
        <<"context", artifact.context>>,
        <<"name", artifact.name>>,
        <<"nsvc", nsvc>>,
        <<"stream", artifact.stream>>,
        <<"version", artifact.version>>,
        <<"issuer", Get(artifact, "issuer", None)>>,
        <<"rebuild", Get(body.run, "rebuild", None)>>,
        <<"log", body.run.log>>,
        <<"system_os", Get(system, "os", None)>>,
        <<"system_provider", Get(system, "provider", None)>>,
        <<"ci_name", Get(msg_body_ci, "name", None)>>,
        <<"ci_url", Get(msg_body_ci, "url", None)>>,
        <<"ci_team", Get(msg_body_ci, "team", None)>>,
        <<"ci_irc", Get(msg_body_ci, "irc", None)>>,
        <<"ci_email", Get(msg_body_ci, "email", None)>> >>))

\* scratch is supposed to be a bool but some messages use a string
ScratchFlag(scratch) ==
    IF scratch \in {True, False} THEN scratch = True
    ELSE lower(scratch) = <<"t", "r", "u", "e">>

DefaultArtifact(body, system, item_type) ==
    LET artifact == body.artifact IN
    IF \/ "ci" \notin DOMAIN body
       \/ ~({"nvr", "component"} \subseteq DOMAIN artifact)
    THEN Raised("KeyError")
    ELSE IF "category" \notin DOMAIN body \/ "log" \notin DOMAIN body.run
    THEN Raised("KeyError")
    ELSE
    LET msg_body_ci == body.ci
        scratch == ScratchFlag(Get(artifact, "scratch", <<>>))
    IN Extracted(Dict(<<
        <<"item", artifact.nvr>>,
        <<"type", IF scratch THEN item_type \o <<"_scratch">> ELSE item_type>>,
        <<"brew_task_id", Get(artifact, "id", None)>>,
        <<"category", body.category>>,
        <<"component", artifact.component>>,
        <<"scratch", IF scratch THEN True ELSE False>>,
        <<"issuer", Get(artifact, "issuer", None)>>,
        <<"rebuild", Get(body.run, "rebuild", None)>>,
        <<"log", body.run.log>>,
        <<"system_os", Get(system, "os", None)>>,
        <<"system_provider", Get(system, "provider", None)>>,
        <<"ci_name", Get(msg_body_ci, "name", None)>>,
        <<"ci_url", Get(msg_body_ci, "url", None)>>,
        <<"ci_environment", Get(msg_body_ci, "environment", None)>>,
        <<"ci_team", Get(msg_body_ci, "team", None)>>,
        <<"ci_irc", Get(msg_body_ci, "irc", None)>>,
        <<"ci_email", Get(msg_body_ci, "email", None)>> >>))

ExtractResultData(body, system, item_type) ==
    IF item_type = <<"productmd-compose">>
    THEN ProductmdCompose(body, system, item_type)
    ELSE IF item_type = <<"component-version">>
    THEN ComponentVersion(body, system, item_type)
    ELSE IF item_type = <<"container-image">>
    THEN ContainerImage(body, system, item_type)
    ELSE IF item_type = <<"redhat-module">>
    THEN RedhatModule(body, system, item_type)
    ELSE DefaultArtifact(body, system, item_type)

handle_ci_umb(m, uuid, fail) ==
    LET msg_body == m.body.msg IN
    IF \/ "message-id" \notin DOMAIN m.headers
       \/ "artifact" \notin DOMAIN msg_body
       \/ "run" \notin DOMAIN msg_body
    THEN Outcome("KeyError", <<>>, 0, 0, <<>>, 0)
    ELSE IF \/ "type" \notin DOMAIN msg_body.artifact
            \/ "url" \notin DOMAIN msg_body.run
            \/ ~TopicDecidesOutcome(m.topic) /\ "status" \notin DOMAIN msg_body
    THEN Outcome("KeyError", <<>>, 0, 0, <<>>, 0)
    ELSE
    LET item_type == msg_body.artifact.type
        test_run_url == msg_body.run.url
        outcome == _test_result_outcome(m)
        groups == <<[uuid |-> uuid, url |-> test_run_url]>>
        system == NormalSystem(msg_body)
        x == ExtractResultData(msg_body, system, item_type)
    IN
    IF x.raised = "False" THEN Outcome("returned False", <<>>, 0, 0, <<"error">>, 1)
    ELSE IF x.raised # "" THEN Outcome(x.raised, <<>>, 0, 0, <<>>, 1)
    ELSE IF "url" \notin DOMAIN msg_body.ci
    THEN Outcome("KeyError", <<>>, 0, 0, <<>>, 1)
    ELSE
    LET result_data == update_publisher_id(
            Put(x.result_data, "recipients",
                Get(msg_body, "recipients", List(<<>>))), m)
        testcase == _construct_testcase_dict(msg_body)
        log1 == IF \E i \in 1..Len(testcase.name) : testcase.name[i] = "unknown"
                THEN <<"warning">> ELSE <<>>
        verified == verify_topic_and_testcase_name(m.topic, testcase.name)
    IN
    IF ~verified.ok THEN Outcome("returned", <<>>, 0, 0, log1 \o verified.log, 1)
    ELSE IF raise_for_status(fail, 1)
    THEN Outcome("HTTPError", <<>>, 1, 0, log1 \o verified.log, 1)
    ELSE Outcome("returned",
                 <<create_result(testcase, outcome, test_run_url, result_data,
                                 groups, <<>>)>>,
                 1, 0, log1 \o verified.log, 1)

\* ------------------------------------------------- handle_resultsdb_format

\* rpmdiff_url_regex_pattern,
\*   ^(?P<url_prefix>http.+\/run\/)(?P<run>\d+)(?:\/)?(?P<result>\d+)?$
\* The tail after url_prefix holds digits and at most one '/', so url_prefix
\* ends at the last "/run/" of the URL.
RECURSIVE LeadingDigits(_)
LeadingDigits(s) ==
    IF s # <<>> /\ Head(s) \in Digits THEN 1 + LeadingDigits(Tail(s)) ELSE 0

RunTailMatches(s) ==
    LET n == LeadingDigits(s)
        rest == SubSeq(s, n + 1, Len(s))
    IN /\ n >= 1
       /\ \/ rest = <<>>
          \/ rest = <<"/">>
          \/ /\ Head(rest) = "/"
             /\ LeadingDigits(Tail(rest)) = Len(rest) - 1

PrefixEnds(url) ==
    {k \in 5..Len(url) :
        /\ url[1] = "http"
        /\ SubSeq(url, k - 2, k) = <<"/", "run", "/">>
        /\ RunTailMatches(SubSeq(url, k + 1, Len(url)))}

rpmdiff_url_regex_match(url) == PrefixEnds(url) # {}

rpmdiff_groupdict(url) ==
    LET k == Max(PrefixEnds(url))
        tail == SubSeq(url, k + 1, Len(url))
    IN [url_prefix |-> SubSeq(url, 1, k),
        run |-> SubSeq(tail, 1, LeadingDigits(tail))]

\* the rpmdiff check made in single mode only
IsRpmdiff_SingleModeOnly(msg_body) ==
    /\ Get(msg_body, "results", <<>>) = <<>>
    /\ StartsWith(Get(Get(msg_body, "testcase", <<>>), "name", <<>>),
                  <<"dist", ".", "rpmdiff">>)

\* msg_body.get('testcase', {}).get('name', '').startswith('dist.rpmdiff')
IsRpmdiff(msg_body) ==
    StartsWith(Get(Get(msg_body, "testcase", <<>>), "name", <<>>),
               <<"dist", ".", "rpmdiff">>)

\* The loop over msg_body['results'].items(), a sequence of <<testcase,
\* result>> in the order of the mapping, from index i on.
RECURSIVE BulkLoop(_, _, _, _, _)
BulkLoop(m, groups, i, reqs, fail) ==
    LET results == m.body.msg.results IN
    IF i > Len(results) THEN Outcome("returned", reqs, Len(reqs), 0, <<>>, 1)
    ELSE
    LET testcase == results[i][1]
        res == results[i][2]
        result_data == update_publisher_id(Get(res, "data", <<>>), m)
    IN
    IF "outcome" \notin DOMAIN res
    THEN Outcome("KeyError", reqs, Len(reqs), 0, <<>>, 1)
    ELSE IF raise_for_status(fail, Len(reqs) + 1)
    THEN Outcome("HTTPError", reqs, Len(reqs) + 1, 0, <<>>, 1)
    ELSE BulkLoop(m, groups, i + 1,
                  Append(reqs, create_result(testcase, res.outcome,
                                             Get(res, "ref_url", <<>>),
                                             result_data, groups,
                                             Get(res, "note", <<>>))),
                  fail)

\* single mode with a new uuid whatever get_first_group finds
SingleModeUuid_AlwaysNew(store, group_ref_url, uuid) == uuid

\* the uuid of the group in single mode
SingleModeUuid(store, group_ref_url, uuid) ==
    Get(get_first_group(store, group_ref_url), "uuid", uuid)

handle_resultsdb_format(m, store, uuid, fail, getFails) ==
    LET msg_body == m.body.msg IN
    IF "ref_url" \notin DOMAIN msg_body
    THEN Outcome("KeyError", <<>>, 0, 0, <<>>, 0)
    ELSE IF IsRpmdiff(msg_body) /\ ~rpmdiff_url_regex_match(msg_body.ref_url)
    THEN Outcome("ValueError", <<>>, 0, 0, <<>>, 0)
    ELSE
    LET group_ref_url ==
            IF IsRpmdiff(msg_body)
            THEN rpmdiff_groupdict(msg_body.ref_url).url_prefix
                 \o rpmdiff_groupdict(msg_body.ref_url).run
            ELSE msg_body.ref_url
    IN
    IF Get(msg_body, "results", <<>>) # <<>>
    THEN BulkLoop(m, <<[uuid |-> uuid, ref_url |-> group_ref_url]>>, 1, <<>>,
                  fail)
    ELSE IF getFails THEN Outcome("HTTPError", <<>>, 0, 1, <<>>, 0)
    ELSE
    LET groups == <<[uuid |-> SingleModeUuid(store, group_ref_url, uuid),
                     ref_url |-> group_ref_url,
                     description |-> group_ref_url]>>
    IN
    IF ~({"data", "testcase", "outcome"} \subseteq DOMAIN msg_body)
    THEN Outcome("KeyError", <<>>, 0, 1, <<>>, 1)
    ELSE IF raise_for_status(fail, 1)
    THEN Outcome("HTTPError", <<>>, 1, 1, <<>>, 1)
    ELSE Outcome("returned",
                 <<create_result(msg_body.testcase, msg_body.outcome,
                                 msg_body.ref_url,
                                 update_publisher_id(msg_body.data, m),
                                 groups, Get(msg_body, "note", <<>>))>>,
                 1, 1, <<>>, 1)

\* ---------------------------------------------------------------- messages

\* d without the keys of `keys`
Without(d, keys) == [k \in DOMAIN d \ keys |-> d[k]]

Message(topic, headers, body) ==
    [topic |-> topic, headers |-> headers, body |-> [msg |-> body]]

Headers == ("message-id" :> <<"ID:1">>) @@ [JMSXUserID |-> <<"msg-producer">>]

\* all sequences over S of length at most n
RECURSIVE SeqsUpTo(_, _)
SeqsUpTo(S, n) ==
    IF n = 0 THEN {<<>>}
    ELSE LET shorter == SeqsUpTo(S, n - 1) IN
         shorter \cup {Append(q, x) : q \in shorter, x \in S}

JenkinsJobUrl == <<"http", "://jenkins", "/", "job", "/", "j">>
JenkinsBuildUrl == JenkinsJobUrl \o <<"/", "7", "/">>

SubTests ==
    {[failed |-> <<"0">>, executor |-> <<"beaker">>],
     [executor |-> <<"CI-OSP">>]}

CiMetricsBody ==
    [team |-> <<"rhos">>,
     job_name |-> <<"smoke">>,
     jenkins_job_url |-> JenkinsJobUrl,
     jenkins_build_url |-> JenkinsBuildUrl,
     build_type |-> <<"scratch">>,
     artifact |-> <<"pkg-1.0-1">>,
     brew_task_id |-> <<"1234">>,
     tests |-> <<[failed |-> <<"0">>], [failed |-> <<"1">>]>>,
     component |-> <<"pkg">>,
     recipients |-> <<"alice", ",", "bob">>,
     CI_tier |-> List(<<<<"1">>>>)]

CiMetricsBodies ==
    {Put(CiMetricsBody, "tests", t) : t \in SeqsUpTo(SubTests, MaxTests)}
    \cup {Without(CiMetricsBody, {"team", "build_type", "artifact",
                                  "brew_task_id", "component", "recipients",
                                  "CI_tier"}),
          Put(Without(CiMetricsBody, {"job_name"}), "job_names", <<"old">>),
          Without(CiMetricsBody, {"job_name"}),
          Without(CiMetricsBody, {"jenkins_build_url"}),
          Without(CiMetricsBody, {"tests"}),
          Put(CiMetricsBody, "tests",
              <<[failed |-> <<"1", "0">>, executor |-> <<"beaker">>]>>),
          Put(CiMetricsBody, "tests",
              <<[failed |-> <<"0", "0">>], [failed |-> <<"0">>]>>),
          Put(CiMetricsBody, "tests",
              <<[failed |-> <<"0">>], [failed |-> <<"n", "/", "a">>]>>)}

CiMetricsMsgs ==
    {Message(<<"/topic/CI">>, Headers, b) : b \in CiMetricsBodies}
    \cup {Message(<<"/topic/CI">>, Without(Headers, {"JMSXUserID"}),
                  CiMetricsBody),
          Message(<<"/topic/CI">>, Without(Headers, {"message-id"}),
                  CiMetricsBody)}

\* topics of the structured scheme, of the old scheme, and near misses
Topic(namespace, event) ==
    TopicPrefix \o namespace \o <<".", "brew-build", ".", "test", ".", event>>

Topics ==
    {Topic(<<"baseos-ci">>, "complete"),
     Topic(<<"baseos-ci">>, "error"),
     Topic(<<"baseos-ci">>, "running"),
     Topic(<<"baseos-ci">>, "queued"),
     Topic(<<"other-ci">>, "complete"),
     Topic(<<>>, "complete"),
     Topic(<<"baseos-ci", ".", "x">>, "complete"),
     <<"/topic/VirtualTopic", ".", "qe", ".", "ci", ".", "brew-build", ".",
       "test", ".", "error">>,
     <<"/topic/VirtualTopic", ".", "eng", ".", "ci", ".", "baseos-ci">>}

Statuses ==
    {<<"P", "A", "S", "S">>, <<"p", "a", "s", "s">>, <<"F", "a", "i", "l">>,
     <<"f", "a", "i", "l", "u", "r", "e">>, <<"W", "A", "I", "V", "E", "D">>,
     <<"P", "a", "s", "s", "e", "d">>, <<"i", "n", "f", "o">>}

Ci ==
    [name |-> <<"BaseOS CI">>, team |-> <<"BaseOS QE">>,
     url |-> <<"https://ci.example.com">>, irc |-> <<"#baseosci">>,
     email |-> <<"baseos-ci@example.com">>, environment |-> <<"production">>]

Run ==
    [url |-> <<"https://ci.example.com/run/1">>,
     log |-> <<"https://ci.example.com/run/1/console">>,
     rebuild |-> <<"https://ci.example.com/run/1/rebuild">>]

System ==
    [os |-> <<"rhel-8">>, provider |-> <<"openstack">>,
     architecture |-> <<"x86_64">>, variant |-> <<"Server">>]

Artifacts ==
    {[type |-> <<"productmd-compose">>, id |-> <<"RHEL-8.0-1">>],
     [type |-> <<"productmd-compose">>, compose_id |-> <<"RHEL-8.0-1">>],
     [type |-> <<"component-version">>, component |-> <<"dnf">>,
      version |-> <<"4.0">>],
     [type |-> <<"container-image">>, repository |-> <<"repo/img">>,
      digest |-> <<"sha256:0a">>, nvr |-> <<"img-1-1">>,
      scratch |-> False, issuer |-> <<"bob">>],
     [type |-> <<"container-image">>, repository |-> <<"repo/img">>],
     [type |-> <<"redhat-module">>, id |-> <<"42">>, issuer |-> <<"bob">>,
      nsvc |-> <<"perl", ":", "5", "-", "26", ":", "20180", ":", "6c81f8">>,
      name |-> <<"perl">>, stream |-> <<"5", "-", "26">>,
      version |-> <<"20180">>, context |-> <<"6c81f8">>],
     [type |-> <<"redhat-module">>,
      nsvc |-> <<"a", ":", "perl", ":", "5", ":", "20180", ":", "6c81f8">>,
      name |-> <<"perl">>, stream |-> <<"5">>,
      version |-> <<"20180">>, context |-> <<"6c81f8">>],
     [type |-> <<"redhat-module">>,
      nsvc |-> <<"perl", "-", "5", "-", "26", ":", "20180", ":", "6c81f8">>,
      name |-> <<"perl">>, stream |-> <<"5", "-", "26">>,
      version |-> <<"20180">>, context |-> <<"6c81f8">>],
     [type |-> <<"redhat-module">>, name |-> <<"perl">>],
     [type |-> <<"brew-build">>, nvr |-> <<"dnf-4.0-1">>,
      component |-> <<"dnf">>, id |-> <<"1234">>, issuer |-> <<"bob">>,
      scratch |-> True],
     [type |-> <<"brew-build">>, nvr |-> <<"dnf-4.0-1">>,
      component |-> <<"dnf">>, scratch |-> <<"T", "r", "u", "e">>],
     [type |-> <<"brew-build">>, nvr |-> <<"dnf-4.0-1">>,
      component |-> <<"dnf">>, scratch |-> <<"f", "a", "l", "s", "e">>],
     [type |-> <<"brew-build">>, component |-> <<"dnf">>],
     [nvr |-> <<"dnf-4.0-1">>, component |-> <<"dnf">>]}

MinimalArtifacts ==
    {[type |-> <<"productmd-compose">>, compose_id |-> <<"RHEL-8.0-1">>],
     [type |-> <<"component-version">>, component |-> <<"dnf">>,
      version |-> <<"4.0">>],
     [type |-> <<"container-image">>, repository |-> <<"repo/img">>,
      digest |-> <<"sha256:0a">>],
     [type |-> <<"redhat-module">>,
      nsvc |-> <<"perl", ":", "5", ":", "20180", ":", "6c81f8">>,
      name |-> <<"perl">>, stream |-> <<"5">>,
      version |-> <<"20180">>, context |-> <<"6c81f8">>],
     [type |-> <<"brew-build">>, nvr |-> <<"dnf-4.0-1">>,
      component |-> <<"dnf">>]}

CiUmbBody ==
    [artifact |-> [type |-> <<"brew-build">>, nvr |-> <<"dnf-4.0-1">>,
                   component |-> <<"dnf">>],
     run |-> Run, ci |-> Ci, system |-> System,
     namespace |-> <<"baseos-ci", ".", "brew-build">>,
     type |-> <<"tier1">>, category |-> <<"functional">>,
     status |-> <<"p", "a", "s", "s", "e", "d">>,
     recipients |-> List(<<<<"alice">>>>), xunit |-> <<"<testsuites/>">>]

CiUmbBodies ==
    {Put(CiUmbBody, "artifact", a) : a \in Artifacts}
    \cup {Put(CiUmbBody, "status", st) : st \in Statuses}
    \cup {Put(Put(Put(Put(CiUmbBody, "artifact", a),
                  "ci", Without(Ci, {"irc", "environment"})),
                  "run", Without(Run, {"rebuild"})),
                  "system", ListOfDicts(<<Without(System, {"os", "variant"})>>))
            : a \in MinimalArtifacts}
    \cup {Without(CiUmbBody, {"status"}),
          Without(CiUmbBody, {"category"}),
          Without(CiUmbBody, {"ci"}),
          Without(CiUmbBody, {"run"}),
          Without(CiUmbBody, {"artifact"}),
          Without(CiUmbBody, {"system"}),
          Put(CiUmbBody, "namespace", <<>>),
          Without(CiUmbBody, {"recipients", "xunit", "namespace"}),
          Put(CiUmbBody, "system", ListOfDicts(<<>>)),
          Put(CiUmbBody, "run", Without(Run, {"log"})),
          Put(CiUmbBody, "run", Without(Run, {"url"})),
          Put(CiUmbBody, "ci", Without(Ci, {"url"})),
          Put(CiUmbBody, "ci", Without(Ci, {"email"}))}

CiUmbMsgs ==
    {Message(Topic(<<"baseos-ci">>, "complete"), Headers, b) : b \in CiUmbBodies}
    \cup {Message(t, Headers, CiUmbBody) : t \in Topics}
    \cup {Message(Topic(<<"baseos-ci">>, event), Headers,
                  Without(CiUmbBody, {"status"}))
            : event \in {"error", "running", "queued"}}
    \cup {Message(Topic(<<"baseos-ci">>, "complete"),
                  Without(Headers, {"message-id"}), CiUmbBody),
          Message(Topic(<<"baseos-ci">>, "complete"),
                  Put(Headers, "JMSXUserID", <<>>), CiUmbBody)}

\* rpmdiff and other resultsdb-format messages
RunUrl(run) == <<"http", "s://rpmdiff", "/", "run", "/">> \o run

RefUrls ==
    {RunUrl(<<"1", "2">>),
     RunUrl(<<"1", "2", "/", "3">>),
     RunUrl(<<"1", "2", "/">>),
     RunUrl(<<"7">>),
     <<"http", "s://rpmdiff", "/", "job", "/", "1", "2">>}

ResultsdbBody ==
    [testcase |-> [name |-> <<"dist", ".", "abicheck">>,
                   ref_url |-> <<"https://docs">>],
     outcome |-> PASSED,
     ref_url |-> RunUrl(<<"1", "2">>),
     data |-> [item |-> <<"dnf-4.0-1">>, type |-> <<"koji_build">>],
     note |-> <<"a note">>]

BulkResults ==
    {[outcome |-> PASSED, ref_url |-> <<"https://log">>, note |-> <<"ok">>,
      data |-> [item |-> <<"dnf-4.0-1">>, type |-> <<"koji_build">>]],
     [outcome |-> FAILED]}

\* the i-th test case name of a `results` mapping
BulkName(i) == <<"dist", ".", "check", ".">> \o [j \in 1..i |-> "i"]

\* the `results` mappings: distinct test case names, in the order of the mapping
ResultsMappings ==
    {[i \in 1..Len(q) |-> <<BulkName(i), q[i]>>]
        : q \in SeqsUpTo(BulkResults, MaxResults)
               \cup {<<[ref_url |-> <<"https://log">>]>>,
                     <<[outcome |-> FAILED], [ref_url |-> <<"https://log">>]>>}}

ResultsdbBodies ==
    {Put(Put(ResultsdbBody, "ref_url", u),
         "testcase", [name |-> <<"dist", ".", "rpmdiff", ".", "analysis">>,
                      ref_url |-> <<"https://docs">>]) : u \in RefUrls}
    \cup {Put(ResultsdbBody, "ref_url", RunUrl(<<"1", "2", "/", "3">>))}
    \cup {Put(Without(ResultsdbBody, {"outcome", "data", "note"}), "results", r)
            : r \in ResultsMappings}
    \cup {Put(Put(Without(ResultsdbBody, {"outcome", "data", "note"}),
                  "results", <<<<<<"dist", ".", "check">>, [outcome |-> PASSED]>>>>),
              "testcase", [name |-> <<"dist", ".", "rpmdiff">>])}
    \cup {Put(Put(Put(Without(ResultsdbBody, {"outcome", "data", "note"}),
                  "results", <<<<<<"dist", ".", "check">>, [outcome |-> PASSED]>>>>),
              "testcase", [name |-> <<"dist", ".", "rpmdiff">>]),
              "ref_url", <<"http", "s://rpmdiff", "/", "job", "/", "1", "2">>)}
    \cup {Without(ResultsdbBody, {"ref_url"}),
          Without(ResultsdbBody, {"data"}),
          Without(ResultsdbBody, {"outcome"}),
          Without(ResultsdbBody, {"testcase"}),
          Without(ResultsdbBody, {"note"}),
          Put(ResultsdbBody, "data", <<>>)}

ResultsdbMsgs ==
    {Message(<<"/topic/resultsdb">>, Headers, b) : b \in ResultsdbBodies}

\* ------------------------------------------------------------ the consumer

NoMessage == Message(<<>>, <<>>, <<>>)

Init ==
    /\ handler = "none"
    /\ msg = NoMessage
    /\ failAt = 0
    /\ posted = <<>>
    /\ attempts = 0
    /\ lookups = 0
    /\ result = "none"
    /\ log = <<>>
    /\ apiGroups = <<>>
    /\ nextUuid = 1

\* One message is handled to completion before the next one is accepted.
Consumed(h, m, fail, r) ==
    /\ handler' = h
    /\ msg' = m
    /\ failAt' = fail
    /\ posted' = r.posted
    /\ attempts' = r.attempts
    /\ lookups' = r.lookups
    /\ result' = r.result
    /\ log' = r.log
    /\ apiGroups' = StoreResults(apiGroups, r.posted)
    /\ nextUuid' = nextUuid + r.uuids

HandleCiMetrics ==
    /\ nextUuid <= MaxUuid
    /\ \E m \in CiMetricsMsgs :
         \E fail \in 0..handle_ci_metrics(m, nextUuid, 0).attempts :
         \E r \in {handle_ci_metrics(m, nextUuid, fail)} :
            Consumed("handle_ci_metrics", m, fail, r)

HandleCiUmb ==
    /\ nextUuid <= MaxUuid
    /\ \E m \in CiUmbMsgs :
         \E fail \in 0..handle_ci_umb(m, nextUuid, 0).attempts :
         \E r \in {handle_ci_umb(m, nextUuid, fail)} :
            Consumed("handle_ci_umb", m, fail, r)

HandleResultsdbFormat ==
    /\ nextUuid <= MaxUuid
    /\ \E m \in ResultsdbMsgs :
         \E quiet \in {handle_resultsdb_format(m, apiGroups, nextUuid, 0, FALSE)} :
         \E getFails \in IF quiet.lookups > 0 THEN BOOLEAN ELSE {FALSE} :
         \E fail \in 0..(IF getFails THEN 0 ELSE quiet.attempts) :
         \E r \in {handle_resultsdb_format(m, apiGroups, nextUuid, fail,
                                           getFails)} :
            Consumed("handle_resultsdb_format", m, fail, r)

Next == HandleCiMetrics \/ HandleCiUmb \/ HandleResultsdbFormat

Spec == Init /\ [][Next]_vars

\* ------------------------------------------------------------------ claims

Body == msg.body.msg

IsStructured(topic) ==
    StartsWith(topic, TopicPrefix) /\ Len(Split(topic, ".")) = 7

DerivedName ==
    Get(Body, "namespace", <<"unknown">>) \o <<".">>
    \o Get(Body, "type", <<"unknown">>) \o <<".">>
    \o Get(Body, "category", <<"unknown">>)

\* C1: handle_ci_umb calls create_result for a message with a structured topic
\* (the prefix and exactly 7 components) only if component 3 of the topic is
\* the first segment of the test case name, and for any other topic the check
\* never suppresses the submission.
C1_SubmitsOnlyOnNamespaceMatch ==
    handler = "handle_ci_umb" =>
        /\ IsStructured(msg.topic) /\ attempts > 0
              => Split(msg.topic, ".")[4] = Split(DerivedName, ".")[1]
        /\ ~IsStructured(msg.topic) /\ result = "returned" => attempts = 1

CiMetricsDone == handler = "handle_ci_metrics" /\ result = "returned"

AggregateName ==
    Get(Body, "team", <<"unassigned">>) \o <<".">>
    \o (IF "job_name" \in DOMAIN Body THEN Body.job_name ELSE Body.job_names)

\* N sub-test results in input order, then the aggregate, all in one group;
\* passed[i] says whether sub-test i counts as passed.
MetricsSubmissions(passed) ==
    LET tests == Body.tests
        N == Len(tests)
    IN /\ Len(posted) = N + 1
       /\ attempts = N + 1
       /\ \A i \in 1..N :
            /\ posted[i].outcome = IF passed[i] THEN PASSED ELSE FAILED
            /\ [k \in DOMAIN tests[i] |-> posted[i].data[k]] = tests[i]
            /\ posted[i].testcase.name =
                   AggregateName \o <<".">>
                   \o Get(tests[i], "executor", <<"unknown">>)
       /\ posted[N + 1].testcase.name = AggregateName
       /\ posted[N + 1].outcome =
              IF \E i \in 1..N : posted[i].outcome = FAILED
              THEN FAILED ELSE PASSED
       /\ \A i \in 1..(N + 1) :
            /\ Len(posted[i].groups) = 1
            /\ posted[i].groups[1].uuid = posted[1].groups[1].uuid

FailedCountNonzero(test) == "failed" \in DOMAIN test /\ int(test.failed) # 0

FailedCountZero(test) == "failed" \in DOMAIN test /\ int(test.failed) = 0

PassedUnlessNonzero(test) == ~FailedCountNonzero(test)

\* C2 as stated: a CI-metrics message with N sub-tests gets N+1 submissions,
\* the sub-tests in input order, each FAILED if its `failed` count is nonzero
\* else PASSED, then the aggregate, FAILED iff a sub-test FAILED, all with
\* one group UUID.
C2_AsStated ==
    CiMetricsDone =>
        MetricsSubmissions([i \in 1..Len(Body.tests) |->
                               PassedUnlessNonzero(Body.tests[i])])

\* C2 amended: the same, with a sub-test PASSED only if its `failed` count is
\* present and zero: a sub-test without a `failed` count is FAILED.
C2_SubTestsThenAggregate ==
    CiMetricsDone =>
        MetricsSubmissions([i \in 1..Len(Body.tests) |->
                               FailedCountZero(Body.tests[i])])

C2_Witness ==
    /\ CiMetricsDone
    /\ Len(Body.tests) = 2
    /\ FailedCountZero(Body.tests[1])
    /\ "failed" \notin DOMAIN Body.tests[2]
    /\ Len(posted) = 3
    /\ posted[2].outcome = FAILED
    /\ posted[3].outcome = FAILED

BulkMode ==
    /\ handler = "handle_resultsdb_format"
    /\ "results" \in DOMAIN Body
    /\ Body.results # <<>>

\* C3: a bulk message with K >= 1 results, all accepted, makes exactly K
\* submissions, one per entry, all with the one group UUID generated for
\* this message, and get_first_group is never called in bulk mode.
C3_BulkOneFreshGroup ==
    BulkMode =>
        /\ lookups = 0
        /\ result = "returned" =>
             /\ Len(posted) = Len(Body.results)
             /\ attempts = Len(Body.results)
             /\ \A i \in 1..Len(posted) :
                  /\ posted[i].testcase = Body.results[i][1]
                  /\ Len(posted[i].groups) = 1
                  /\ posted[i].groups[1].uuid = nextUuid - 1
             /\ \A j \in 1..Len(apiGroups) :
                  apiGroups[j].uuid = nextUuid - 1 => j = Len(apiGroups)

C3_Witness ==
    /\ BulkMode
    /\ result = "returned"
    /\ Len(posted) >= 2
    /\ Len(apiGroups) >= 2

\* the run URL of a '.../run/<id>/<result>' or '.../run/<id>/' URL
RunOf(url) ==
    LET parts == Split(url, "/") IN
    IF Len(parts) >= 3 /\ parts[Len(parts) - 2] = <<"run">>
    THEN SubSeq(url, 1, Len(url) - Len(parts[Len(parts)]) - 1)
    ELSE url

HasRpmdiffName(body) ==
    /\ "testcase" \in DOMAIN body
    /\ "name" \in DOMAIN body.testcase
    /\ StartsWith(body.testcase.name, <<"dist", ".", "rpmdiff">>)

GroupRefUrl(body) ==
    IF HasRpmdiffName(body) THEN RunOf(body.ref_url) ELSE body.ref_url

Described(store, description) ==
    {j \in 1..Len(store) :
        "description" \in DOMAIN store[j] /\ store[j].description = description}

SingleModeSubmitted ==
    /\ handler = "handle_resultsdb_format"
    /\ ~BulkMode
    /\ posted # <<>>

\* C4: once the API holds a group whose description is the group ref_url of
\* a single-mode message (for dist.rpmdiff the ref_url collapsed to its run),
\* every later single-mode message with that group ref_url is submitted with
\* the UUID of that group, no group is added, and no two groups ever share a
\* description.
C4_SingleModeReusesGroup ==
    [][SingleModeSubmitted' =>
          LET ref == GroupRefUrl(Body')
              uuid == posted'[1].groups[1].uuid
          IN /\ posted'[1].groups[1].description = ref
             /\ Cardinality(Described(apiGroups', ref)) = 1
             /\ Described(apiGroups, ref) # {} =>
                   /\ \A j \in Described(apiGroups, ref) :
                        apiGroups[j].uuid = uuid
                   /\ apiGroups' = apiGroups]_vars

C4_Witness ==
    /\ SingleModeSubmitted
    /\ HasRpmdiffName(Body)
    /\ Body.ref_url # posted[1].groups[1].description
    /\ posted[1].groups[1].uuid < nextUuid - 1

FullRun ==
    CASE handler = "handle_ci_metrics" ->
            handle_ci_metrics(msg, nextUuid - 1, 0).posted
      [] handler = "handle_ci_umb" ->
            handle_ci_umb(msg, nextUuid - 1, 0).posted
      [] handler = "handle_resultsdb_format" ->
            handle_resultsdb_format(msg, apiGroups, nextUuid - 1, 0, FALSE).posted
      [] OTHER -> <<>>

\* C5: when the i-th submission of a message gets a non-2xx response the
\* handler raises, exactly the first i-1 results stay submitted, nothing is
\* attempted after the i-th, and the CI-metrics aggregate is not submitted.
C5_FailureAbortsTheRest ==
    failAt >= 1 =>
        /\ result = "HTTPError"
        /\ attempts = failAt
        /\ Len(FullRun) >= failAt
        /\ posted = SubSeq(FullRun, 1, failAt - 1)
        /\ handler = "handle_ci_metrics" =>
              \A i \in 1..Len(posted) : posted[i].testcase.name # AggregateName

C5_Witness ==
    /\ handler = "handle_ci_metrics"
    /\ Len(Body.tests) = 2
    /\ failAt = 2
    /\ result = "HTTPError"
    /\ Len(posted) = 1

\* C6: the outcome is FAILED, QUEUED, RUNNING for a topic ending in .error,
\* .queued, .running, whatever the body (a body without status included);
\* otherwise PASSED for a status that lower-cased is 'pass', FAILED for
\* 'fail' or 'failure', and the status itself, as given, for any other.
C6_OutcomeClassified ==
    handler = "handle_ci_umb" =>
        /\ posted # <<>> =>
             LET outcome == posted[1].outcome IN
             IF EndsWith(msg.topic, <<".", "error">>) THEN outcome = FAILED
             ELSE IF EndsWith(msg.topic, <<".", "queued">>) THEN outcome = QUEUED
             ELSE IF EndsWith(msg.topic, <<".", "running">>)
             THEN outcome = RUNNING
             ELSE IF lower(Body.status) = <<"p", "a", "s", "s">>
             THEN outcome = PASSED
             ELSE IF lower(Body.status) \in {<<"f", "a", "i", "l">>,
                                            <<"f", "a", "i", "l", "u", "r", "e">>}
             THEN outcome = FAILED
             ELSE outcome = Body.status
        /\ /\ Body = Without(CiUmbBody, {"status"})
           /\ \E event \in {"error", "queued", "running"} :
                 EndsWith(msg.topic, <<".", event>>)
           => result # "KeyError"

C6_Witness ==
    /\ handler = "handle_ci_umb"
    /\ EndsWith(msg.topic, <<".", "error">>)
    /\ "status" \notin DOMAIN Body
    /\ posted # <<>>
    /\ posted[1].outcome = FAILED

\* the fields handle_ci_umb reads before it looks at the artifact
UmbHeaderFields ==
    /\ "message-id" \in DOMAIN msg.headers
    /\ {"artifact", "run", "ci"} \subseteq DOMAIN Body
    /\ "type" \in DOMAIN Body.artifact
    /\ "url" \in DOMAIN Body.run
    /\ \/ "status" \in DOMAIN Body
       \/ \E event \in {"error", "queued", "running"} :
             EndsWith(msg.topic, <<".", event>>)

MalformedNsvc ==
    /\ handler = "handle_ci_umb"
    /\ UmbHeaderFields
    /\ Body.artifact.type = <<"redhat-module">>
    /\ "nsvc" \in DOMAIN Body.artifact
    /\ Cardinality({i \in 1..Len(Body.artifact.nsvc) :
                       Body.artifact.nsvc[i] = ":"}) < 3

MissingRequiredField ==
    \/ /\ handler = "handle_ci_umb"
       /\ \/ "message-id" \notin DOMAIN msg.headers
          \/ ~({"artifact", "run", "ci"} \subseteq DOMAIN Body)
    \/ /\ handler = "handle_resultsdb_format"
       /\ "ref_url" \notin DOMAIN Body

RpmdiffUrlMismatch ==
    /\ handler = "handle_resultsdb_format"
    /\ "ref_url" \in DOMAIN Body
    /\ HasRpmdiffName(Body)
    /\ ~rpmdiff_url_regex_match(Body.ref_url)

NothingSubmitted == attempts = 0 /\ posted = <<>>

C8_RpmdiffRejectedFirst ==
    RpmdiffUrlMismatch =>
        /\ result = "ValueError"
        /\ lookups = 0
        /\ attempts = 0
        /\ posted = <<>>

C8_Witness ==
    /\ RpmdiffUrlMismatch
    /\ BulkMode
    /\ result = "ValueError"
    /\ lookups = 0
    /\ attempts = 0

\* C9: no key of the result_data handle_ci_umb passes to create_result has
\* the value None.
C9_NoNoneInResultData ==
    handler = "handle_ci_umb" =>
        \A i \in 1..Len(posted) :
            \A k \in DOMAIN posted[i].data : posted[i].data[k] # None

\* C10 as stated: every result data passed to create_result by any of the
\* three handlers has an `item` and a `type` key.
C10_AsStated ==
    \A i \in 1..Len(posted) : {"item", "type"} \subseteq DOMAIN posted[i].data

\* the data of the message that the i-th submission of handle_resultsdb_format
\* is made from
SourceData(i) ==
    IF BulkMode THEN Get(Body.results[i][2], "data", <<>>) ELSE Body.data

\* C10 amended: every result data passed by handle_ci_metrics and by
\* handle_ci_umb has an `item` and a `type` key; handle_resultsdb_format
\* passes the data of the message as it is, with publisher_id set, so it has
\* `item` and `type` exactly when the message's data has them.
C10_ItemAndType ==
    \A i \in 1..Len(posted) :
        IF handler = "handle_resultsdb_format"
        THEN /\ DOMAIN posted[i].data \ {"publisher_id"}
                    = DOMAIN SourceData(i) \ {"publisher_id"}
             /\ \A k \in DOMAIN SourceData(i) \ {"publisher_id"} :
                    posted[i].data[k] = SourceData(i)[k]
        ELSE {"item", "type"} \subseteq DOMAIN posted[i].data

C10_Witness ==
    /\ BulkMode
    /\ Len(posted) = 2
    /\ {"item", "type"} \subseteq DOMAIN posted[1].data
    /\ "item" \notin DOMAIN posted[2].data

\* a container-image message without artifact.digest that has every other
\* field handle_ci_umb requires, on a structured topic whose namespace is the
\* one of the test case name, and whose submission the API would accept
ContainerImageWithoutDigest ==
    /\ handler = "handle_ci_umb"
    /\ UmbHeaderFields
    /\ Body.artifact.type = <<"container-image">>
    /\ "repository" \in DOMAIN Body.artifact
    /\ "digest" \notin DOMAIN Body.artifact
    /\ CiRequired \subseteq DOMAIN Body.ci
    /\ "log" \in DOMAIN Body.run
    /\ IsStructured(msg.topic)
    /\ Split(msg.topic, ".")[4] = Split(DerivedName, ".")[1]
    /\ failAt = 0

\* C11: for a container-image message that lacks artifact.digest but is
\* otherwise well-formed and passes the namespace check, handle_ci_umb does
\* not fail: it makes one submission whose result_data has `repository` and
\* whose `item` is made of the repository without a digest segment.
C11_DigestOptional ==
    ContainerImageWithoutDigest =>
        /\ result = "returned"
        /\ attempts = 1
        /\ Len(posted) = 1
        /\ "repository" \in DOMAIN posted[1].data
        /\ "digest" \notin DOMAIN posted[1].data
        /\ StartsWith(posted[1].data.item, Body.artifact.repository)

====
